---------------------------- MODULE Spec2Model ----------------------------
(***************************************************************************)
(* LuminaLM: the memory-adaptive streaming data pipeline.                  *)
(*                                                                         *)
(* The components of the repository are modelled each with its own         *)
(* specification over the shared variables:                                *)
(*   SpecCheckpoint  CheckpointManager                                     *)
(*   SpecSave        save_checkpoint called from several threads           *)
(*   SpecPrefetch    AsyncPrefetchDataLoader                               *)
(*   SpecData        DataManager.load_data_parallel, _process_chunk        *)
(*   SpecCache       EmbeddingGenerator's embedding cache                  *)
(*   SpecTrain       train_with_monitoring, handle_oom                     *)
(*                                     (src/embeddings/embeddings.py)      *)
(*   SpecGov         ChunkManager.chunk_iterator, WorkerManager            *)
(*   SpecRetry       RetryHandler, AsyncFileProcessor.process_file         *)
(*   SpecStream      process_streaming_dataset                             *)
(*   SpecAfp         AsyncFileProcessor's append buffer                    *)
(*   SpecTok         TokenizerPathManager.safe_save                        *)
(*                                     (src/tokens/tokenizer.py)           *)
(* A component's specification leaves the other components' variables at   *)
(* their idle values.                                                      *)
(***************************************************************************)
EXTENDS Integers, Sequences, FiniteSets, TLC

VARIABLES
    \* ---- CheckpointManager and its save directory
    disk,             \* epoch e |-> 0 when checkpoint_epoch_e.pt is absent, else the
                      \* serial number of the save that wrote it (its mtime and content)
    checkpoints,      \* self.checkpoints: the tracked paths, oldest first
    max_checkpoints,  \* self.max_checkpoints
    clock,            \* number of torch.save calls made so far in the directory
    nSaves,           \* save_checkpoint calls returned by the current manager
    lastOp,           \* the last call that returned: "init", "save" or "load"
    lastEpoch,        \* epoch argument of the last save_checkpoint (-1: none)
    loaded,           \* result of the last load_latest_checkpoint
    partial,          \* epochs whose file holds an interrupted, incomplete write
    \* ---- threads calling save_checkpoint on one shared CheckpointManager
    tpc,              \* thread |-> its position inside save_checkpoint
    tepoch,           \* thread |-> the epoch argument of its current call
    popped,           \* thread |-> oldest_checkpoint, the path it has popped
    used,             \* the epochs passed to save_checkpoint so far
    \* ---- AsyncPrefetchDataLoader
    dataloader,       \* number of batches the wrapped dataloader yields: 1..dataloader
    num_prefetch,     \* Queue(maxsize=num_prefetch)
    queue,            \* self.queue: batches, and None (the end sentinel)
    stop_event,       \* self.stop_event.is_set()
    ppc,              \* position of the prefetch thread in _prefetch_data
    pidx,             \* number of batches the thread has pulled from the dataloader
    errored,          \* the dataloader raised in the prefetch thread
    cpc,              \* position of the consumer: idle, in __iter__, in __del__, gone
    iterNo,           \* iterations over the loader started so far
    received,         \* batches yielded by the current (or last) iteration
    enqueued,         \* every item the prefetch thread has put, in order
    sawStop,          \* the thread has found stop_event set
    \* ---- RetryHandler and AsyncFileProcessor.process_file
    mode,             \* the executor called: retry_context, async_retry, process_file
    max_retries,      \* self.max_retries (process_file: its fixed range(3))
    base_delay,       \* self.base_delay, in time units
    failCount,        \* the wrapped operation fails on its first failCount runs
    kind,             \* what a failing run of the operation raises
    rpc,              \* position in the executor: attempt, except, done
    attempt,          \* the loop variable
    runs,             \* number of times the operation has been run
    sleeps,           \* the delays slept so far, in order
    exc,              \* the exception being handled or raised
    outcome,          \* how the call ended: none (running), ok, raised
    \* ---- ChunkManager.chunk_iterator and WorkerManager
    gmode,            \* which of the two is running: chunks, workers (off: neither)
    ntexts,           \* len(texts); the records are 1..ntexts
    chunk_size,       \* the local chunk_size of chunk_iterator
    position,         \* records the islice iterator has consumed
    yielded,          \* the chunks yielded: [first, last, size], size being the
                      \* chunk_size in effect when the chunk was cut
    gpc,              \* position of the generator: top, yielded, done
    max_workers,      \* self.max_workers = multiprocessing.cpu_count()
    current_workers,  \* self.current_workers
    memReading,       \* the last psutil.virtual_memory().percent read
    cpuReading,       \* the last psutil.cpu_percent read
    prevValue,        \* chunk_size or current_workers before the last adjustment step
    adjusted,         \* an adjustment step has run
    allHigh,          \* every reading so far was above the critical level
    allLow,           \* every reading so far was below the low level
    sinceReduce,      \* seconds since the last reduction, capped at the
                      \* cool-down; -1 when there was none
    \* ---- DataManager.load_data_parallel and _process_chunk
    dop,              \* the method called: process_chunk, load_data_parallel
    dtexts,           \* texts: what encoding each text gives (ok, short, raises);
                      \* a text is identified by its index
    num_workers,      \* the num_workers argument
    chunks,           \* the chunks handed to pool.map, each a sequence of indices
    mapped,           \* chunk number |-> the worker has processed it
    mapResults,       \* chunk number |-> what _process_chunk returned for it
    dresult,          \* the list the method returned
    dpc,              \* called, mapping, done, raised (off: nothing called)
    \* ---- EmbeddingGenerator and its cache
    cache,            \* self.cache: the keys of the OrderedDict, in its order
    cache_size,       \* self.cache_size
    recency,          \* the keys accessed so far, least recently accessed first
    prevCache,        \* self.cache before the last get_embedding call
    lastKey,          \* the key of the last get_embedding call (0: none)
    lastGet,          \* how it ended: hit, miss (generated and cached), keyerror
    \* ---- process_streaming_dataset
    sdataset,         \* the dataset: item |-> it has a non-empty text; an item is
                      \* identified by its index
    sidx,             \* items the for loop has taken
    sbatch,           \* batch: the texts collected and not yet submitted
    futures,          \* futures: the batches submitted and not yet awaited
    poolDone,         \* the submitted batches whose pool task has ended
    outfile,          \* the texts outfile to the output file, in file order
    spc,              \* loop, check, final, drain, done (off: not called)
    \* ---- train_with_monitoring and the handle_oom decorator
    tmode,            \* train_with_monitoring or handle_oom (off: neither)
    tbatches,         \* batch |-> what training on it does: ok, oom (RuntimeError
                      \* "... out of memory ..."), error (another RuntimeError);
                      \* for handle_oom the one call of the wrapped function
    hasOptimizer,     \* handle_oom: the call passes optimizer as a keyword
    tidx,             \* batches the loop is past
    trained,          \* the batches trained on, in order
    cleaned,          \* clean_memory calls that returned
    zeroed,           \* optimizer.zero_grad() calls made by the OOM handler
    texc,             \* the exception being handled or raised: none, oom, error,
                      \* TypeError
    trpc,              \* loop, except, returned, raised
    \* ---- AsyncFileProcessor
    abuffer,          \* self.buffer: the strings appended and not yet flushed
    buffer_size,      \* self.buffer_size
    max_buffer_size,  \* self.max_buffer_size
    file_locks,       \* the keys of self.file_locks, in insertion order
    fileText,         \* file |-> the strings the file holds, in order
    appended,         \* file |-> the strings passed to 'append' for it, in order
    overwritten,      \* the files a 'write' operation has written
    nData,            \* strings passed to the processor so far; each is
                      \* identified by its number and is one unit long
    apc,              \* open (inside the async with), exited (off: not used)
    \* ---- TokenizerPathManager
    tokFile,          \* save path |-> its contents: 0 absent, n > 0 the
                      \* tokenizer of the n-th safe_save call
    tokMtime,         \* save path |-> st_mtime of the file (0 when absent)
    tmpFile,          \* save path |-> contents of its .tmp file: 0 absent,
                      \* -1 an incomplete file, n > 0 a complete tokenizer
    backups,          \* the files of backup_dir: [stem, content, mtime]
    tokClock,         \* the time of the latest write of a new file
    nTokSaves,        \* safe_save calls made so far
    savePath,         \* save_path of the current or latest call (0: none)
    tokBefore,        \* contents of save_path when that call began
    tokResult,        \* none, ok (the call returned), failed (it raised)
    tokpc             \* idle, try, written, except (off: not used)

ckptVars == <<disk, checkpoints, max_checkpoints, clock, nSaves, lastOp, lastEpoch, loaded,
              partial>>

saveVars == <<tpc, tepoch, popped, used>>

prefetchVars == <<dataloader, num_prefetch, queue, stop_event, ppc, pidx, errored,
                  cpc, iterNo, received,
                  enqueued, sawStop>>

retryVars == <<mode, max_retries, base_delay, failCount, kind, rpc, attempt, runs,
               sleeps, exc, outcome>>

govVars == <<gmode, ntexts, chunk_size, position, yielded, gpc, max_workers,
             current_workers, memReading, cpuReading, prevValue, adjusted,
             allHigh, allLow, sinceReduce>>

dataVars == <<dop, dtexts, num_workers, chunks, mapped, mapResults, dresult, dpc>>

cacheVars == <<cache, cache_size, recency, prevCache, lastKey, lastGet>>

streamVars == <<sdataset, sidx, sbatch, futures, poolDone, outfile, spc>>

trainVars == <<tmode, tbatches, hasOptimizer, tidx, trained, cleaned, zeroed, texc,
               trpc>>

afpVars == <<abuffer, buffer_size, max_buffer_size, file_locks, fileText, appended,
             overwritten, nData, apc>>

tokVars == <<tokFile, tokMtime, tmpFile, backups, tokClock, nTokSaves, savePath,
             tokBefore, tokResult, tokpc>>

vars == <<ckptVars, saveVars, prefetchVars, retryVars, govVars, dataVars, cacheVars, streamVars, trainVars, afpVars, tokVars>>

\* What an action of one component leaves alone
exceptCkpt == <<saveVars, prefetchVars, retryVars, govVars, dataVars, cacheVars, streamVars, trainVars, afpVars, tokVars>>
exceptSave == <<prefetchVars, retryVars, govVars, dataVars, cacheVars, streamVars, trainVars, afpVars, tokVars>>
exceptPrefetch == <<ckptVars, saveVars, retryVars, govVars, dataVars, cacheVars, streamVars, trainVars, afpVars, tokVars>>
exceptRetry == <<ckptVars, saveVars, prefetchVars, govVars, dataVars, cacheVars, streamVars, trainVars, afpVars, tokVars>>
exceptGov == <<ckptVars, saveVars, prefetchVars, retryVars, dataVars, cacheVars, streamVars, trainVars, afpVars, tokVars>>
exceptData == <<ckptVars, saveVars, prefetchVars, retryVars, govVars, cacheVars, streamVars, trainVars, afpVars, tokVars>>
exceptCache == <<ckptVars, saveVars, prefetchVars, retryVars, govVars, dataVars, streamVars, trainVars, afpVars, tokVars>>
exceptStream == <<ckptVars, saveVars, prefetchVars, retryVars, govVars, dataVars, cacheVars, trainVars, afpVars, tokVars>>
exceptTrain == <<ckptVars, saveVars, prefetchVars, retryVars, govVars, dataVars, cacheVars, streamVars, afpVars, tokVars>>
exceptAfp == <<ckptVars, saveVars, prefetchVars, retryVars, govVars, dataVars, cacheVars, streamVars, trainVars, tokVars>>
exceptTok == <<ckptVars, saveVars, prefetchVars, retryVars, govVars, dataVars, cacheVars, streamVars, trainVars, afpVars>>

-----------------------------------------------------------------------------
(* Bounds of the model *)

MaxEpoch == 2          \* epoch numbers are 0..MaxEpoch
MaxCheckpoints == 2    \* max_checkpoints ranges over 1..MaxCheckpoints
MaxSaves == 5          \* torch.save calls in one behaviour
NumThreads == 2        \* threads sharing one CheckpointManager

MaxBatches == 3        \* the dataloader yields 0..MaxBatches batches
MaxPrefetch == 2       \* num_prefetch ranges over 1..MaxPrefetch
MaxIters == 2          \* iterations over one AsyncPrefetchDataLoader
MaxRetries == 3        \* max_retries ranges over 1..MaxRetries
MaxBaseDelay == 2      \* base_delay ranges over 1..MaxBaseDelay
MaxFail == 4           \* the operation fails on its first 0..MaxFail runs

MaxTexts == 3500       \* len(texts) is 0, 1 or MaxTexts
MaxChunkArg == 4000    \* the largest chunk_size argument passed
MaxAvailableKiB == 8388608   \* the largest available memory, in KiB (8 GiB)
MaxCpus == 4           \* multiprocessing.cpu_count() ranges over 1..MaxCpus
MaxInitialWorkers == 8 \* initial_workers ranges over 0..MaxInitialWorkers

MaxDataTexts == 4      \* load_data_parallel, _process_chunk: at most this many texts
MaxNumWorkers == 3     \* num_workers ranges over 1..MaxNumWorkers

MaxKeys == 3           \* get_embedding is called with the keys 1..MaxKeys
MaxCacheSize == 2      \* cache_size ranges over 1..MaxCacheSize

MaxItems == 5          \* the streamed dataset has at most this many items
StreamBatchSize == 2   \* batch_size of process_streaming_dataset (10000 in the
                       \* code), scaled to the datasets of the model

MaxTrainBatches == 3   \* train_loader yields at most this many batches

MaxFiles == 2          \* the files an AsyncFileProcessor is used on
MaxBufferSize == 3     \* max_buffer_size ranges over 1..MaxBufferSize, a string
                       \* being one unit long (10 MiB by default in the code)
MaxData == 3           \* strings passed to one AsyncFileProcessor

MaxSavePaths == 2      \* the save paths one TokenizerPathManager is used with
MaxTokSaves == 3       \* safe_save calls on one TokenizerPathManager

Epochs == 0..MaxEpoch

Threads == 1..NumThreads

-----------------------------------------------------------------------------
(* Helpers *)

\* min(a, b) and max(a, b)
Min(a, b) == IF a <= b THEN a ELSE b

Max(a, b) == IF a >= b THEN a ELSE b

RECURSIVE SortByMtime(_, _)
\* sorted(paths, key=os.path.getmtime): the set S of existing paths, oldest first
SortByMtime(S, d) ==
    IF S = {} THEN <<>>
    ELSE LET first == CHOOSE e \in S : \A f \in S : d[e] <= d[f]
         IN  <<first>> \o SortByMtime(S \ {first}, d)

-----------------------------------------------------------------------------
(* CheckpointManager *)

NoLoad == [status |-> "none", content |-> 0]

\* save_dir.glob("*.pt"): the checkpoint files present in the directory
Glob(d) == {e \in Epochs : d[e] # 0}

\* Path.unlink(): the file is gone afterwards (a missing file raises, the caller
\* logs a warning and goes on)
Unlink(d, e) == [d EXCEPT ![e] = 0]

\* A cleanup that removes one checkpoint only: `if` in place of `while`
CleanupOnce(cps, d, maxc) ==
    IF Len(cps) > maxc
    THEN [checkpoints |-> Tail(cps), disk |-> Unlink(d, Head(cps))]
    ELSE [checkpoints |-> cps, disk |-> d]

RECURSIVE CleanupOldCheckpoints(_, _, _)
\* _cleanup_old_checkpoints: while more than max_checkpoints are tracked, pop
\* the first tracked path and unlink it
CleanupOldCheckpoints(cps, d, maxc) ==
    IF Len(cps) > maxc
    THEN CleanupOldCheckpoints(Tail(cps), Unlink(d, Head(cps)), maxc)
    ELSE [checkpoints |-> cps, disk |-> d]

\* torch.save(checkpoint_data, checkpoint_path): creates or overwrites the file
TorchSave(d, e, serial) == [d EXCEPT ![e] = serial]

\* torch.load(path) and the reads of checkpoint_data[...]: the stored data, or
\* an exception when the file is missing, unreadable or lacks a required field
TorchLoad(d, p, e) ==
    IF d[e] = 0 \/ e \in p THEN [status |-> "raised", content |-> 0]
    ELSE [status |-> "ok", content |-> d[e]]

\* load_latest_checkpoint: (None, None) when nothing is tracked, else the last
\* tracked path is loaded; a failure to load is logged and raised again
LoadLatest(cps, d, p) ==
    IF cps = <<>> THEN [status |-> "nocheckpoint", content |-> 0]
    ELSE TorchLoad(d, p, cps[Len(cps)])

CkptInit ==
    /\ disk = [e \in Epochs |-> 0]
    /\ checkpoints = <<>>
    /\ max_checkpoints \in 1..MaxCheckpoints
    /\ clock = 0
    /\ nSaves = 0
    /\ lastOp = "init"
    /\ lastEpoch = -1
    /\ loaded = NoLoad
    /\ partial = {}

\* CheckpointManager.__init__ over the directory as it is: a new run, with the
\* max_checkpoints its caller passes
Construct ==
    /\ checkpoints' = SortByMtime(Glob(disk), disk)
    /\ max_checkpoints' \in 1..MaxCheckpoints
    /\ nSaves' = 0
    /\ lastOp' = "init"
    /\ lastEpoch' = -1
    /\ loaded' = NoLoad
    /\ UNCHANGED <<disk, clock, partial>>
    /\ UNCHANGED exceptCkpt

\* save_checkpoint(model, optimizer, epoch, ...): write, track, clean up
SaveCheckpoint(epoch) ==
    /\ lastOp # "crash"
    /\ clock < MaxSaves
    /\ LET serial == clock + 1
           written == TorchSave(disk, epoch, serial)
           after == CleanupOldCheckpoints(Append(checkpoints, epoch), written,
                                          max_checkpoints)
       IN  /\ disk' = after.disk
           /\ checkpoints' = after.checkpoints
           /\ clock' = serial
           /\ partial' = {e \in partial \ {epoch} : after.disk[e] # 0}
    /\ nSaves' = nSaves + 1
    /\ lastOp' = "save"
    /\ lastEpoch' = epoch
    /\ UNCHANGED <<max_checkpoints, loaded>>
    /\ UNCHANGED exceptCkpt

\* save_checkpoint interrupted inside torch.save (the process is killed, the
\* machine loses power): torch.save writes to checkpoint_path itself, so the
\* file there holds an incomplete write. The manager is gone with its process.
CrashedSave(epoch) ==
    /\ lastOp # "crash"
    /\ clock < MaxSaves
    /\ disk' = TorchSave(disk, epoch, clock + 1)
    /\ partial' = partial \cup {epoch}
    /\ clock' = clock + 1
    /\ lastOp' = "crash"
    /\ lastEpoch' = epoch
    /\ UNCHANGED <<checkpoints, max_checkpoints, nSaves, loaded>>
    /\ UNCHANGED exceptCkpt

\* load_latest_checkpoint called on the manager
LoadLatestCheckpoint ==
    /\ lastOp # "crash"
    /\ loaded' = LoadLatest(checkpoints, disk, partial)
    /\ lastOp' = "load"
    /\ UNCHANGED <<disk, checkpoints, max_checkpoints, clock, nSaves, lastEpoch, partial>>
    /\ UNCHANGED exceptCkpt

NextCheckpoint ==
    \/ Construct
    \/ \E epoch \in Epochs : SaveCheckpoint(epoch)
    \/ \E epoch \in Epochs : CrashedSave(epoch)
    \/ LoadLatestCheckpoint

-----------------------------------------------------------------------------
(* save_checkpoint called from several threads on one CheckpointManager.    *)
(* The method takes no lock, so the threads interleave between its          *)
(* statements: torch.save, the append, each test of the while condition,    *)
(* each pop(0) and each unlink.                                             *)

\* A manager over an empty directory, shared by threads that have not called yet
SaveInit ==
    /\ CkptInit
    /\ tpc = [t \in Threads |-> "idle"]
    /\ tepoch = [t \in Threads |-> -1]
    /\ popped = [t \in Threads |-> -1]
    /\ used = {}

\* thread t calls save_checkpoint(epoch) and torch.save writes the file
ThreadTorchSave(t, epoch) ==
    /\ tpc[t] = "idle"
    /\ epoch \notin used
    /\ disk' = TorchSave(disk, epoch, clock + 1)
    /\ clock' = clock + 1
    /\ used' = used \cup {epoch}
    /\ tepoch' = [tepoch EXCEPT ![t] = epoch]
    /\ tpc' = [tpc EXCEPT ![t] = "append"]
    /\ UNCHANGED <<checkpoints, max_checkpoints, nSaves, lastOp, lastEpoch, loaded,
                   partial, popped>>
    /\ UNCHANGED exceptSave

\* self.checkpoints.append(checkpoint_path)
ThreadAppend(t) ==
    /\ tpc[t] = "append"
    /\ checkpoints' = Append(checkpoints, tepoch[t])
    /\ tpc' = [tpc EXCEPT ![t] = "while"]
    /\ UNCHANGED <<disk, max_checkpoints, clock, nSaves, lastOp, lastEpoch, loaded,
                   partial, tepoch, popped, used>>
    /\ UNCHANGED exceptSave

\* while len(self.checkpoints) > self.max_checkpoints: into the body, or the
\* loop ends and save_checkpoint returns
ThreadWhile(t) ==
    /\ tpc[t] = "while"
    /\ IF Len(checkpoints) > max_checkpoints
       THEN /\ tpc' = [tpc EXCEPT ![t] = "pop"]
            /\ UNCHANGED <<nSaves, lastOp, lastEpoch>>
       ELSE /\ tpc' = [tpc EXCEPT ![t] = "idle"]
            /\ nSaves' = nSaves + 1
            /\ lastOp' = "save"
            /\ lastEpoch' = tepoch[t]
    /\ UNCHANGED <<disk, checkpoints, max_checkpoints, clock, loaded, partial,
                   tepoch, popped, used>>
    /\ UNCHANGED exceptSave

\* oldest_checkpoint = self.checkpoints.pop(0)
ThreadPop(t) ==
    /\ tpc[t] = "pop"
    /\ checkpoints # <<>>
    /\ popped' = [popped EXCEPT ![t] = Head(checkpoints)]
    /\ checkpoints' = Tail(checkpoints)
    /\ tpc' = [tpc EXCEPT ![t] = "unlink"]
    /\ UNCHANGED <<disk, max_checkpoints, clock, nSaves, lastOp, lastEpoch, loaded,
                   partial, tepoch, used>>
    /\ UNCHANGED exceptSave

\* oldest_checkpoint.unlink(), then back to the while condition
ThreadUnlink(t) ==
    /\ tpc[t] = "unlink"
    /\ disk' = Unlink(disk, popped[t])
    /\ tpc' = [tpc EXCEPT ![t] = "while"]
    /\ UNCHANGED <<checkpoints, max_checkpoints, clock, nSaves, lastOp, lastEpoch,
                   loaded, partial, tepoch, popped, used>>
    /\ UNCHANGED exceptSave

NextSave ==
    \E t \in Threads :
        \/ \E epoch \in Epochs : ThreadTorchSave(t, epoch)
        \/ ThreadAppend(t)
        \/ ThreadWhile(t)
        \/ ThreadPop(t)
        \/ ThreadUnlink(t)

-----------------------------------------------------------------------------
(* AsyncPrefetchDataLoader *)

\* The end-of-data sentinel put by the prefetch thread; batches are 1, 2, ...
None == 0

\* The batches of the wrapped dataloader, in its order
Batches == [i \in 1..dataloader |-> i]

\* A full test that is off by one: the queue takes one item too many
QueueFullOffByOne(q, maxsize) == 0 < maxsize /\ maxsize < Len(q)

\* queue.Queue._full: 0 < maxsize <= qsize (a maxsize of 0 or less never fills)
QueueFull(q, maxsize) == 0 < maxsize /\ maxsize <= Len(q)

\* queue.Queue._put: append on the right
QueuePut(q, item) == Append(q, item)

\* A get that takes the newest item, as a LifoQueue does
QueueGetLifo(q) == [item |-> q[Len(q)], rest |-> SubSeq(q, 1, Len(q) - 1)]

\* queue.Queue._get: popleft
QueueGet(q) == [item |-> Head(q), rest |-> Tail(q)]

\* AsyncPrefetchDataLoader.__init__: the queue is created and the thread started
PrefetchInit ==
    /\ dataloader \in 0..MaxBatches
    /\ num_prefetch \in 1..MaxPrefetch
    /\ queue = <<>>
    /\ stop_event = FALSE
    /\ ppc = "pull"
    /\ pidx = 0
    /\ errored = FALSE
    /\ cpc = "idle"
    /\ iterNo = 0
    /\ received = <<>>
    /\ enqueued = <<>>
    /\ sawStop = FALSE

\* for batch in self.dataloader: the next batch, or the end of the loop
PrefetchPull ==
    /\ ppc = "pull"
    /\ IF pidx < dataloader
       THEN pidx' = pidx + 1 /\ ppc' = "check"
       ELSE pidx' = pidx /\ ppc' = "final"
    /\ UNCHANGED <<dataloader, num_prefetch, queue, stop_event, errored, cpc, iterNo,
                   received,
                   enqueued, sawStop>>
    /\ UNCHANGED exceptPrefetch

\* if self.stop_event.is_set(): break; else the batch is moved to the device
PrefetchCheck ==
    /\ ppc = "check"
    /\ ppc' = IF stop_event THEN "final" ELSE "put"
    /\ sawStop' = (sawStop \/ stop_event)
    /\ UNCHANGED <<dataloader, num_prefetch, queue, stop_event, pidx, errored, cpc,
                   iterNo, received,
                   enqueued>>
    /\ UNCHANGED exceptPrefetch

\* An exception that ends the thread at once, the finally clause skipped
PrefetchRaiseNoFinally ==
    /\ \/ ppc = "pull" /\ pidx < dataloader
       \/ ppc = "check" /\ ~stop_event
    /\ errored' = TRUE
    /\ ppc' = "done"
    /\ UNCHANGED <<dataloader, num_prefetch, queue, stop_event, pidx, cpc, iterNo,
                   received, enqueued, sawStop>>
    /\ UNCHANGED exceptPrefetch

\* an exception from the dataloader or from the move to the device: logged by
\* the except clause, the finally clause follows
PrefetchRaise ==
    /\ \/ ppc = "pull" /\ pidx < dataloader
       \/ ppc = "check" /\ ~stop_event
    /\ errored' = TRUE
    /\ ppc' = "final"
    /\ UNCHANGED <<dataloader, num_prefetch, queue, stop_event, pidx, cpc, iterNo,
                   received,
                   enqueued, sawStop>>
    /\ UNCHANGED exceptPrefetch

\* self.queue.put(processed_batch): blocks while the queue is full
PrefetchPut ==
    /\ ppc = "put"
    /\ ~QueueFull(queue, num_prefetch)
    /\ queue' = QueuePut(queue, pidx)
    /\ ppc' = "pull"
    /\ enqueued' = Append(enqueued, pidx)
    /\ UNCHANGED <<dataloader, num_prefetch, stop_event, pidx, errored, cpc, iterNo,
                   received,
                   sawStop>>
    /\ UNCHANGED exceptPrefetch

\* finally: self.queue.put(None): blocks while the queue is full
PrefetchPutSentinel ==
    /\ ppc = "final"
    /\ ~QueueFull(queue, num_prefetch)
    /\ queue' = QueuePut(queue, None)
    /\ ppc' = "done"
    /\ enqueued' = Append(enqueued, None)
    /\ UNCHANGED <<dataloader, num_prefetch, stop_event, pidx, errored, cpc, iterNo,
                   received,
                   sawStop>>
    /\ UNCHANGED exceptPrefetch

\* iter(loader): a consumer starts to iterate (each epoch of train_model does)
IterStart ==
    /\ cpc = "idle"
    /\ iterNo < MaxIters
    /\ cpc' = "iter"
    /\ iterNo' = iterNo + 1
    /\ received' = <<>>
    /\ UNCHANGED <<dataloader, num_prefetch, queue, stop_event, ppc, pidx, errored,
                   enqueued, sawStop>>
    /\ UNCHANGED exceptPrefetch

\* __iter__: batch = self.queue.get() blocks while the queue is empty; None
\* ends the iteration, any other item is yielded
IterGet ==
    /\ cpc = "iter"
    /\ queue # <<>>
    /\ LET got == QueueGet(queue)
       IN  /\ queue' = got.rest
           /\ IF got.item = None
              THEN cpc' = "idle" /\ received' = received
              ELSE cpc' = "iter" /\ received' = Append(received, got.item)
    /\ UNCHANGED <<dataloader, num_prefetch, stop_event, ppc, pidx, errored, iterNo,
                   enqueued, sawStop>>
    /\ UNCHANGED exceptPrefetch

\* __del__: self.stop_event.set(), then the join begins
Del ==
    /\ cpc = "idle"
    /\ stop_event' = TRUE
    /\ cpc' = "joining"
    /\ UNCHANGED <<dataloader, num_prefetch, queue, ppc, pidx, errored, iterNo, received,
                   enqueued, sawStop>>
    /\ UNCHANGED exceptPrefetch

\* self.prefetch_thread.join() returns once the thread has ended
JoinReturn ==
    /\ cpc = "joining"
    /\ ppc = "done"
    /\ cpc' = "gone"
    /\ UNCHANGED <<dataloader, num_prefetch, queue, stop_event, ppc, pidx, errored,
                   iterNo, received,
                   enqueued, sawStop>>
    /\ UNCHANGED exceptPrefetch

PrefetchThread ==
    \/ PrefetchPull
    \/ PrefetchCheck
    \/ PrefetchRaise
    \/ PrefetchPut
    \/ PrefetchPutSentinel

NextPrefetch ==
    \/ PrefetchThread
    \/ IterStart
    \/ IterGet
    \/ Del
    \/ JoinReturn

-----------------------------------------------------------------------------
(* RetryHandler and AsyncFileProcessor.process_file *)

HandlerModes == {"retry_context", "async_retry"}

\* What a failing operation raises: a transient I/O or memory error, a
\* configuration error or corrupt input (both subclasses of Exception), or an
\* interrupt (KeyboardInterrupt, SystemExit: not subclasses of Exception)
Kinds == {"transient", "config", "interrupt"}

\* for attempt in range(3), if attempt == 2: raise
ProcessFileAttempts == 3
ProcessFileLast == 2

RECURSIVE Pow2(_)
\* 2 ** n
Pow2(n) == IF n = 0 THEN 1 ELSE 2 * Pow2(n - 1)

\* delay = self.base_delay * (2 ** attempt)
Delay(base, a) == base * Pow2(a)

\* A classifying handler: only a transient failure is caught and retried
CaughtClassified(e, k) == e = "RuntimeError" \/ k = "transient"

\* except Exception: catches every exception that derives from Exception
Caught(e, k) == e = "RuntimeError" \/ k \in {"transient", "config"}

\* Does reaching the body of the loop run the operation? process_file calls the
\* operation anew in every pass. retry_context is a generator under
\* @contextmanager: the with-body runs once, at the first yield. async_retry
\* awaits one coroutine object, which runs once, at the first await.
OperationRuns(m, a) == m = "process_file" \/ a = 0

RetryInit ==
    /\ mode \in HandlerModes \cup {"process_file"}
    /\ IF mode = "process_file"
       THEN max_retries = ProcessFileAttempts /\ base_delay = 0
       ELSE max_retries \in 1..MaxRetries /\ base_delay \in 1..MaxBaseDelay
    /\ failCount \in 0..MaxFail
    /\ kind \in Kinds
    /\ rpc = "attempt"
    /\ attempt = 0
    /\ runs = 0
    /\ sleeps = <<>>
    /\ exc = "none"
    /\ outcome = "none"

\* The try block of one pass of the loop: yield attempt / await coroutine /
\* the file operation
RetryAttempt ==
    /\ rpc = "attempt"
    /\ IF OperationRuns(mode, attempt)
       THEN /\ runs' = runs + 1
            /\ IF runs + 1 > failCount
               THEN rpc' = "done" /\ outcome' = "ok" /\ exc' = exc
               ELSE rpc' = "except" /\ outcome' = outcome /\ exc' = "original"
       ELSE /\ runs' = runs
            /\ IF mode = "retry_context"
               \* the generator yields again inside gen.throw(): contextlib
               \* raises RuntimeError("generator didn't stop after throw()")
               THEN rpc' = "done" /\ outcome' = "raised" /\ exc' = "RuntimeError"
               \* awaiting the coroutine again raises RuntimeError("cannot reuse
               \* already awaited coroutine") inside the try block
               ELSE rpc' = "except" /\ outcome' = outcome /\ exc' = "RuntimeError"
    /\ UNCHANGED <<mode, max_retries, base_delay, failCount, kind, attempt, sleeps>>
    /\ UNCHANGED exceptRetry

\* The except clause: an exception that is not caught propagates; a caught one
\* is followed by the sleep and the next pass, or raised again in the last pass
RetryExcept ==
    /\ rpc = "except"
    /\ IF ~Caught(exc, kind)
       THEN /\ rpc' = "done" /\ outcome' = "raised"
            /\ UNCHANGED <<attempt, sleeps>>
       ELSE IF mode = "process_file"
       THEN IF attempt = ProcessFileLast
            THEN /\ rpc' = "done" /\ outcome' = "raised"
                 /\ UNCHANGED <<attempt, sleeps>>
            ELSE /\ rpc' = "attempt" /\ outcome' = outcome
                 /\ attempt' = attempt + 1
                 /\ sleeps' = sleeps
       ELSE IF attempt < max_retries - 1
            THEN /\ rpc' = "attempt" /\ outcome' = outcome
                 /\ attempt' = attempt + 1
                 /\ sleeps' = Append(sleeps, Delay(base_delay, attempt))
            ELSE /\ rpc' = "done" /\ outcome' = "raised"
                 /\ UNCHANGED <<attempt, sleeps>>
    /\ UNCHANGED <<mode, max_retries, base_delay, failCount, kind, runs, exc>>
    /\ UNCHANGED exceptRetry

NextRetry ==
    \/ RetryAttempt
    \/ RetryExcept

-----------------------------------------------------------------------------
(* ChunkManager.chunk_iterator and WorkerManager: chunk size and worker     *)
(* count follow the memory and CPU readings.                                *)

MinChunkSize == 1000       \* self.min_chunk_size
MaxChunkSize == 100000     \* self.max_chunk_size
ChunkCritical == 95        \* chunk_iterator halves above this memory percentage
ChunkLow == 80             \* chunk_iterator doubles below this memory percentage
MinWorkers == 1            \* self.min_workers
WorkerCritical == 90       \* adjust_workers drops to min_workers above this
WorkerHigh == 80           \* adjust_workers halves above this
WorkerLow == 60            \* adjust_workers doubles below this
AlertCooldown == 300       \* MemoryManager.alert_cooldown, in seconds

\* psutil.virtual_memory().percent as chunk_iterator sees it: one value in each
\* range its tests tell apart, and the two thresholds themselves
ChunkReadings == {ChunkLow - 30, ChunkLow, ChunkCritical, ChunkCritical + 1}

\* memory and CPU percentages as adjust_workers sees them
WorkerReadings == {WorkerLow - 10, WorkerLow, WorkerHigh, WorkerHigh + 5,
                   WorkerCritical, WorkerCritical + 5}

\* psutil.virtual_memory().available, in KiB
AvailableKiB == {0, 16384, MaxAvailableKiB}

\* the chunk_size arguments passed to chunk_iterator
ChunkSizeArgs == {0, MinChunkSize \div 2, MaxChunkArg}

TextLengths == {0, 1, MaxTexts}

\* the time the consumer takes between two adjustments, in seconds
Durations == {1, AlertCooldown}

\* get_chunk_size: max(min_chunk_size, int(available_memory * 0.8 / 8192)), the
\* available memory being given in KiB: bytes * 0.8 / 8192 = KiB / 10
GetChunkSize(availableKiB) == Max(MinChunkSize, availableKiB \div 10)

\* Halving without the floor at min_chunk_size
ShrinkChunkNoFloor(cs, reading) ==
    IF reading > ChunkCritical THEN cs \div 2 ELSE cs

\* chunk_iterator, top of the loop: above 95% the chunk size is halved, floor
\* at min_chunk_size
ShrinkChunk(cs, reading) ==
    IF reading > ChunkCritical THEN Max(MinChunkSize, cs \div 2) ELSE cs

\* A doubling that honours a cool-down after the last reduction
GrowChunkCooldown(cs, reading, elapsed) ==
    IF reading < ChunkLow /\ (elapsed = -1 \/ elapsed >= AlertCooldown)
    THEN Min(MaxChunkSize, cs * 2) ELSE cs

\* chunk_iterator, after the yield: below 80% the chunk size is doubled, up to
\* max_chunk_size. The time since the last reduction is not looked at.
GrowChunk(cs, reading, elapsed) ==
    IF reading < ChunkLow THEN Min(MaxChunkSize, cs * 2) ELSE cs

\* An adjustment that halves under critical pressure as it does under high
AdjustedWorkersHalving(cw, mem, cpu, maxw) ==
    IF mem > WorkerHigh \/ cpu > WorkerHigh THEN Max(MinWorkers, cw \div 2)
    ELSE IF mem < WorkerLow /\ cpu < WorkerLow THEN Min(cw * 2, maxw)
    ELSE cw

\* adjust_workers: the new self.current_workers
AdjustedWorkers(cw, mem, cpu, maxw) ==
    IF mem > WorkerCritical \/ cpu > WorkerCritical THEN MinWorkers
    ELSE IF mem > WorkerHigh \/ cpu > WorkerHigh THEN Max(MinWorkers, cw \div 2)
    ELSE IF mem < WorkerLow /\ cpu < WorkerLow THEN Min(cw * 2, maxw)
    ELSE cw

\* The seconds since the last reduction after dt more seconds
Elapsed(since, dt) == IF since = -1 THEN -1 ELSE Min(since + dt, AlertCooldown)

\* chunk_iterator(texts, chunk_size) called: chunk_size is the argument, or
\* get_chunk_size() when it is None
ChunkInit ==
    /\ gmode = "chunks"
    /\ ntexts \in TextLengths
    /\ chunk_size \in ChunkSizeArgs \cup {GetChunkSize(a) : a \in AvailableKiB}
    /\ position = 0
    /\ yielded = <<>>
    /\ gpc = "top"
    /\ max_workers = 1
    /\ current_workers = 1
    /\ memReading = 0
    /\ cpuReading = 0
    /\ prevValue = chunk_size
    /\ adjusted = FALSE
    /\ allHigh = TRUE
    /\ allLow = TRUE
    /\ sinceReduce = -1

\* WorkerManager(initial_workers): 0 stands for None and for 0, which `or`
\* both replaces by max_workers
WorkerInit ==
    /\ gmode = "workers"
    /\ max_workers \in 1..MaxCpus
    /\ \E initial_workers \in 0..MaxInitialWorkers :
           current_workers = IF initial_workers = 0 THEN max_workers
                             ELSE initial_workers
    /\ ntexts = 0
    /\ chunk_size = 0
    /\ position = 0
    /\ yielded = <<>>
    /\ gpc = "off"
    /\ memReading = 0
    /\ cpuReading = 0
    /\ prevValue = current_workers
    /\ adjusted = FALSE
    /\ allHigh = TRUE
    /\ allLow = TRUE
    /\ sinceReduce = -1

\* chunk_iterator from the top of its loop to the yield or the break
ChunkNext(reading) ==
    /\ gmode = "chunks"
    /\ gpc = "top"
    /\ LET size == ShrinkChunk(chunk_size, reading)
           taken == Min(size, ntexts - position)
       IN  /\ chunk_size' = size
           /\ prevValue' = chunk_size
           /\ sinceReduce' = IF size < chunk_size THEN 0 ELSE sinceReduce
           /\ IF taken = 0
              THEN /\ gpc' = "done"
                   /\ UNCHANGED <<position, yielded>>
              ELSE /\ gpc' = "yielded"
                   /\ position' = position + taken
                   /\ yielded' = Append(yielded, [first |-> position + 1,
                                                  last |-> position + taken,
                                                  size |-> size])
    /\ memReading' = reading
    /\ adjusted' = TRUE
    /\ allHigh' = (allHigh /\ reading > ChunkCritical)
    /\ allLow' = (allLow /\ reading < ChunkLow)
    /\ UNCHANGED <<gmode, ntexts, max_workers, current_workers, cpuReading>>
    /\ UNCHANGED exceptGov

\* the consumer asks for the next chunk dt seconds later: chunk_iterator from
\* its yield to the top of the loop
ChunkResume(reading, dt) ==
    /\ gmode = "chunks"
    /\ gpc = "yielded"
    /\ chunk_size' = GrowChunk(chunk_size, reading, Elapsed(sinceReduce, dt))
    /\ prevValue' = chunk_size
    /\ sinceReduce' = Elapsed(sinceReduce, dt)
    /\ gpc' = "top"
    /\ memReading' = reading
    /\ adjusted' = TRUE
    /\ allHigh' = (allHigh /\ reading > ChunkCritical)
    /\ allLow' = (allLow /\ reading < ChunkLow)
    /\ UNCHANGED <<gmode, ntexts, position, yielded, max_workers, current_workers,
                   cpuReading>>
    /\ UNCHANGED exceptGov

\* adjust_workers called dt seconds after the last adjustment (get_executor
\* calls it when its with block ends)
AdjustWorkers(mem, cpu, dt) ==
    /\ gmode = "workers"
    /\ current_workers' = AdjustedWorkers(current_workers, mem, cpu, max_workers)
    /\ prevValue' = current_workers
    /\ sinceReduce' = IF current_workers' < current_workers THEN 0
                      ELSE Elapsed(sinceReduce, dt)
    /\ memReading' = mem
    /\ cpuReading' = cpu
    /\ adjusted' = TRUE
    /\ allHigh' = (allHigh /\ (mem > WorkerCritical \/ cpu > WorkerCritical))
    /\ allLow' = (allLow /\ mem < WorkerLow /\ cpu < WorkerLow)
    /\ UNCHANGED <<gmode, ntexts, chunk_size, position, yielded, gpc, max_workers>>
    /\ UNCHANGED exceptGov

GovInit == ChunkInit \/ WorkerInit

NextGov ==
    \/ \E reading \in ChunkReadings : ChunkNext(reading)
    \/ \E reading \in ChunkReadings, dt \in Durations : ChunkResume(reading, dt)
    \/ \E mem \in WorkerReadings, cpu \in WorkerReadings, dt \in Durations :
           AdjustWorkers(mem, cpu, dt)

-----------------------------------------------------------------------------
(* DataManager.load_data_parallel and DataManager._process_chunk *)

\* What self.tokenizer.encode(text).ids gives for a text: at least src_seq_len
\* tokens, fewer than src_seq_len tokens, or an exception
TextKinds == {"ok", "short", "raises"}

\* All sequences over S of length at most n
SeqsUpTo(S, n) == UNION {[1..k -> S] : k \in 0..n}

RECURSIVE ProcessChunkAbort(_, _)
\* A loop that an exception ends: the texts after the failing one are lost
ProcessChunkAbort(idxs, texts) ==
    IF idxs = <<>> THEN <<>>
    ELSE IF texts[Head(idxs)] = "raises" THEN <<>>
    ELSE IF texts[Head(idxs)] = "ok"
    THEN <<Head(idxs)>> \o ProcessChunkAbort(Tail(idxs), texts)
    ELSE ProcessChunkAbort(Tail(idxs), texts)

RECURSIVE ProcessChunk(_, _)
\* _process_chunk: for each text in turn, the truncated tokens are appended
\* when there are at least src_seq_len of them; an exception is logged and the
\* loop continues with the next text
ProcessChunk(idxs, texts) ==
    IF idxs = <<>> THEN <<>>
    ELSE IF texts[Head(idxs)] = "ok"
    THEN <<Head(idxs)>> \o ProcessChunk(Tail(idxs), texts)
    ELSE ProcessChunk(Tail(idxs), texts)

RECURSIVE Slices(_, _, _)
\* [texts[i:i + chunk_size] for i in range(start, n, chunk_size)], start being
\* 0-based and chunk_size positive
Slices(start, n, size) ==
    IF start >= n THEN <<>>
    ELSE <<[k \in 1..Min(size, n - start) |-> start + k]>>
             \o Slices(start + size, n, size)

RECURSIVE Flatten(_)
\* [item for sublist in results for item in sublist]
Flatten(lists) ==
    IF lists = <<>> THEN <<>> ELSE Head(lists) \o Flatten(Tail(lists))

DataInit ==
    /\ dop \in {"process_chunk", "load_data_parallel"}
    /\ dtexts \in SeqsUpTo(TextKinds, MaxDataTexts)
    /\ num_workers \in 1..MaxNumWorkers
    /\ dop = "process_chunk" => num_workers = 1
    /\ chunks = <<>>
    /\ mapped = <<>>
    /\ mapResults = <<>>
    /\ dresult = <<>>
    /\ dpc = "called"

\* _process_chunk(texts), called directly
ProcessChunkCall ==
    /\ dop = "process_chunk"
    /\ dpc = "called"
    /\ dresult' = ProcessChunk([i \in 1..Len(dtexts) |-> i], dtexts)
    /\ dpc' = "done"
    /\ UNCHANGED <<dop, dtexts, num_workers, chunks, mapped, mapResults>>
    /\ UNCHANGED exceptData

\* load_data_parallel up to pool.map: chunk_size = len(texts) // num_workers,
\* then the list of slices; range(0, len(texts), 0) raises ValueError
LoadDataSplit ==
    /\ dop = "load_data_parallel"
    /\ dpc = "called"
    /\ LET size == Len(dtexts) \div num_workers
       IN  IF size = 0
           THEN /\ dpc' = "raised"
                /\ UNCHANGED <<chunks, mapped, mapResults>>
           ELSE /\ dpc' = "mapping"
                /\ chunks' = Slices(0, Len(dtexts), size)
                /\ mapped' = [c \in 1..Len(chunks') |-> FALSE]
                /\ mapResults' = [c \in 1..Len(chunks') |-> <<>>]
    /\ UNCHANGED <<dop, dtexts, num_workers, dresult>>
    /\ UNCHANGED exceptData

\* a worker of the pool runs _process_chunk on chunk c; the chunks complete in
\* any order
PoolWorker(c) ==
    /\ dpc = "mapping"
    /\ c \in 1..Len(chunks)
    /\ ~mapped[c]
    /\ mapped' = [mapped EXCEPT ![c] = TRUE]
    /\ mapResults' = [mapResults EXCEPT ![c] = ProcessChunk(chunks[c], dtexts)]
    /\ UNCHANGED <<dop, dtexts, num_workers, chunks, dresult, dpc>>
    /\ UNCHANGED exceptData

\* pool.map returns the results in the order of the chunks once all are
\* there; load_data_parallel returns them flattened
LoadDataReturn ==
    /\ dpc = "mapping"
    /\ \A c \in 1..Len(chunks) : mapped[c]
    /\ dresult' = Flatten(mapResults)
    /\ dpc' = "done"
    /\ UNCHANGED <<dop, dtexts, num_workers, chunks, mapped, mapResults>>
    /\ UNCHANGED exceptData

NextData ==
    \/ ProcessChunkCall
    \/ LoadDataSplit
    \/ \E c \in 1..MaxDataTexts : PoolWorker(c)
    \/ LoadDataReturn

-----------------------------------------------------------------------------
(* EmbeddingGenerator: the embedding cache *)

Keys == 1..MaxKeys

\* The elements of a sequence
Range(seq) == {seq[i] : i \in 1..Len(seq)}

\* The sequence without the element k
Without(seq, k) == SelectSeq(seq, LAMBDA x : x # k)

\* OrderedDict.move_to_end(key), and the order after self.cache[key] = value
\* for a new key: the key is last
MoveToEnd(seq, k) == Append(Without(seq, k), k)

\* An update that never evicts
UpdateCacheNoEvict(c, key, size) == MoveToEnd(c, key)

\* _update_cache: a cached key is moved to the end; else, when the cache is
\* full, popitem(last=False) removes the first key; then the key is set
UpdateCache(c, key, size) ==
    IF key \in Range(c) THEN MoveToEnd(c, key)
    ELSE IF Len(c) >= size THEN Append(Tail(c), key)
    ELSE Append(c, key)

\* EmbeddingGenerator.__init__: an empty cache
CacheInit ==
    /\ cache = <<>>
    /\ cache_size \in 1..MaxCacheSize
    /\ recency = <<>>
    /\ prevCache = <<>>
    /\ lastKey = 0
    /\ lastGet = "none"

\* get_embedding(input_ids, cache_only): a cached key is returned from the
\* cache as it is; else KeyError when cache_only, else the embedding is
\* generated and _update_cache is called
GetEmbedding(key, cache_only) ==
    /\ lastGet # "off"
    /\ prevCache' = cache
    /\ lastKey' = key
    /\ IF key \in Range(cache)
       THEN /\ lastGet' = "hit"
            /\ recency' = MoveToEnd(recency, key)
            /\ UNCHANGED cache
       ELSE IF cache_only
       THEN /\ lastGet' = "keyerror"
            /\ UNCHANGED <<cache, recency>>
       ELSE /\ lastGet' = "miss"
            /\ cache' = UpdateCache(cache, key, cache_size)
            /\ recency' = MoveToEnd(recency, key)
    /\ UNCHANGED cache_size
    /\ UNCHANGED exceptCache

NextCache == \E key \in Keys, cache_only \in BOOLEAN : GetEmbedding(key, cache_only)

-----------------------------------------------------------------------------
(* process_streaming_dataset: batches of texts are handed to a thread pool   *)
(* and outfile when their futures are awaited.                              *)

\* Append the texts of a batch to the file: write_batch
WriteBatch(file, batch) == file \o batch

\* The futures of a list that are done, in list order
DoneFutures(fs, done) == SelectSeq(fs, LAMBDA b : b \in done)

\* The futures of a list that are not done, in list order
PendingFutures(fs, done) == SelectSeq(fs, LAMBDA b : b \notin done)

\* process_dataset called on a dataset
StreamInit ==
    /\ sdataset \in SeqsUpTo(BOOLEAN, MaxItems)
    /\ sidx = 0
    /\ sbatch = <<>>
    /\ futures = <<>>
    /\ poolDone = {}
    /\ outfile = <<>>
    /\ spc = "loop"

\* one turn of `for item in dataset`: a non-empty text is appended to the
\* batch; a full batch is submitted to the executor and a new one started
StreamItem ==
    /\ spc = "loop"
    /\ sidx < Len(sdataset)
    /\ sidx' = sidx + 1
    /\ IF ~sdataset[sidx + 1]
       THEN UNCHANGED <<sbatch, futures, spc>>
       ELSE IF Len(sbatch) + 1 >= StreamBatchSize
       THEN /\ futures' = Append(futures, Append(sbatch, sidx + 1))
            /\ sbatch' = <<>>
            /\ spc' = "check"
       ELSE /\ sbatch' = Append(sbatch, sidx + 1)
            /\ UNCHANGED <<futures, spc>>
    /\ UNCHANGED <<sdataset, poolDone, outfile>>
    /\ UNCHANGED exceptStream

\* a pool thread runs the submitted call write_batch(f, batch_copy):
\* write_batch is a coroutine function, so the call only creates the
\* coroutine, which becomes the result of the future; nothing is outfile
PoolTaskEnds(b) ==
    /\ \E i \in 1..Len(futures) : futures[i] = b
    /\ b \notin poolDone
    /\ poolDone' = poolDone \cup {b}
    /\ UNCHANGED <<sdataset, sidx, sbatch, futures, outfile, spc>>
    /\ UNCHANGED exceptStream

\* "Process completed futures": the futures that are done now are awaited in
\* list order, which writes their batches, and are removed from the list
StreamCheck ==
    /\ spc = "check"
    /\ outfile' = WriteBatch(outfile, Flatten(DoneFutures(futures, poolDone)))
    /\ futures' = PendingFutures(futures, poolDone)
    /\ spc' = "loop"
    /\ UNCHANGED <<sdataset, sidx, sbatch, poolDone>>
    /\ UNCHANGED exceptStream

\* the dataset is exhausted: "Process remaining items" writes the partial batch
StreamFinal ==
    /\ spc = "loop"
    /\ sidx = Len(sdataset)
    /\ outfile' = WriteBatch(outfile, sbatch)
    /\ sbatch' = <<>>
    /\ spc' = "drain"
    /\ UNCHANGED <<sdataset, sidx, futures, poolDone>>
    /\ UNCHANGED exceptStream

\* "Wait for remaining futures": future.result() returns once the pool task has
\* ended, and awaiting the coroutine writes the batch
StreamDrain ==
    /\ spc = "drain"
    /\ futures # <<>>
    /\ Head(futures) \in poolDone
    /\ outfile' = WriteBatch(outfile, Head(futures))
    /\ futures' = Tail(futures)
    /\ UNCHANGED <<sdataset, sidx, sbatch, poolDone, spc>>
    /\ UNCHANGED exceptStream

\* the file is closed and process_dataset returns
StreamReturn ==
    /\ spc = "drain"
    /\ futures = <<>>
    /\ spc' = "done"
    /\ UNCHANGED <<sdataset, sidx, sbatch, futures, poolDone, outfile>>
    /\ UNCHANGED exceptStream

NextStream ==
    \/ StreamItem
    \/ \E i \in 1..Len(futures) : PoolTaskEnds(futures[i])
    \/ StreamCheck
    \/ StreamFinal
    \/ StreamDrain
    \/ StreamReturn

-----------------------------------------------------------------------------
(* train_with_monitoring and handle_oom: the handling of out-of-memory      *)
(* errors                                                                   *)

BatchKinds == {"ok", "oom", "error"}

\* The keyword parameters of MemoryManager.clean_memory(): it has none
CleanMemoryParams == {}

\* The keywords of the call MemoryManager.clean_memory(aggressive=True)
CleanMemoryKeywords == {"aggressive"}

\* MemoryManager.clean_memory called with keywords: a keyword that is not a
\* parameter raises TypeError before the body runs
CleanMemory(keywords) ==
    IF keywords \subseteq CleanMemoryParams THEN "cleaned" ELSE "TypeError"

TrainInit ==
    /\ tmode \in {"train_with_monitoring", "handle_oom"}
    /\ tbatches \in SeqsUpTo(BatchKinds, MaxTrainBatches)
    /\ tmode = "handle_oom" => Len(tbatches) = 1
    /\ hasOptimizer \in BOOLEAN
    /\ tmode = "train_with_monitoring" => hasOptimizer
    /\ tidx = 0
    /\ trained = <<>>
    /\ cleaned = 0
    /\ zeroed = 0
    /\ texc = "none"
    /\ trpc = "loop"

\* the try block: the loop body of train_with_monitoring on the next batch, or
\* the call of the function handle_oom wraps
TrainTry ==
    /\ trpc = "loop"
    /\ tidx < Len(tbatches)
    /\ IF tbatches[tidx + 1] = "ok"
       THEN /\ trained' = Append(trained, tidx + 1)
            /\ tidx' = tidx + 1
            /\ UNCHANGED <<texc, trpc>>
       ELSE /\ texc' = tbatches[tidx + 1]
            /\ trpc' = "except"
            /\ UNCHANGED <<trained, tidx>>
    /\ UNCHANGED <<tmode, tbatches, hasOptimizer, cleaned, zeroed>>
    /\ UNCHANGED exceptTrain

\* except RuntimeError as e: with "out of memory" in the message clean_memory
\* is called, then zero_grad, and the loop continues (handle_oom returns None);
\* any other RuntimeError is raised again
TrainExcept ==
    /\ trpc = "except"
    /\ IF texc = "oom"
       THEN IF CleanMemory(CleanMemoryKeywords) = "TypeError"
            THEN /\ texc' = "TypeError"
                 /\ trpc' = "raised"
                 /\ UNCHANGED <<cleaned, zeroed, tidx>>
            ELSE /\ cleaned' = cleaned + 1
                 /\ zeroed' = IF hasOptimizer THEN zeroed + 1 ELSE zeroed
                 /\ tidx' = tidx + 1
                 /\ texc' = "none"
                 /\ trpc' = "loop"
       ELSE /\ trpc' = "raised"
            /\ UNCHANGED <<cleaned, zeroed, tidx, texc>>
    /\ UNCHANGED <<tmode, tbatches, hasOptimizer, trained>>
    /\ UNCHANGED exceptTrain

\* the loop is over (the wrapped call is over): return
TrainReturn ==
    /\ trpc = "loop"
    /\ tidx = Len(tbatches)
    /\ trpc' = "returned"
    /\ UNCHANGED <<tmode, tbatches, hasOptimizer, tidx, trained, cleaned, zeroed, texc>>
    /\ UNCHANGED exceptTrain

NextTrain ==
    \/ TrainTry
    \/ TrainExcept
    \/ TrainReturn

-----------------------------------------------------------------------------
(* AsyncFileProcessor: buffered appends, flushed when the buffer is full    *)
(* and on exit from the context                                             *)

AFiles == 1..MaxFiles

\* the insertion of a key into the dict self.file_locks
WithLock(locks, f) ==
    IF \E i \in 1..Len(locks) : locks[i] = f THEN locks ELSE Append(locks, f)

\* _flush_buffer(file_path): nothing when the buffer is empty; else the lock
\* of file_path is created if missing, the whole buffer is written to
\* file_path and the buffer is emptied
FlushBuffer(buf, locks, text, f) ==
    IF buf = <<>>
    THEN [buffer |-> buf, locks |-> locks, text |-> text]
    ELSE [buffer |-> <<>>, locks |-> WithLock(locks, f),
          text |-> [text EXCEPT ![f] = @ \o buf]]

RECURSIVE FlushAll(_, _, _, _)
\* __aexit__: for file_path in self.file_locks: _flush_buffer(file_path), the
\* keys being taken from position i on
FlushAll(buf, locks, text, i) ==
    IF i > Len(locks) THEN [buffer |-> buf, locks |-> locks, text |-> text]
    ELSE LET r == FlushBuffer(buf, locks, text, locks[i])
         IN  FlushAll(r.buffer, r.locks, r.text, i + 1)

\* AsyncFileProcessor(max_buffer_size), entered with async with
AfpInit ==
    /\ abuffer = <<>>
    /\ buffer_size = 0
    /\ max_buffer_size \in 1..MaxBufferSize
    /\ file_locks = <<>>
    /\ fileText = [f \in AFiles |-> <<>>]
    /\ appended = [f \in AFiles |-> <<>>]
    /\ overwritten = {}
    /\ nData = 0
    /\ apc = "open"

\* process_file(file_path, 'append', data): _append_to_file
AppendToFile(f) ==
    /\ apc = "open"
    /\ nData < MaxData
    /\ nData' = nData + 1
    /\ appended' = [appended EXCEPT ![f] = Append(@, nData + 1)]
    /\ IF buffer_size + 1 >= max_buffer_size
       THEN LET r == FlushBuffer(Append(abuffer, nData + 1), file_locks, fileText, f)
            IN  /\ abuffer' = r.buffer
                /\ file_locks' = r.locks
                /\ fileText' = r.text
                /\ buffer_size' = 0
       ELSE /\ abuffer' = Append(abuffer, nData + 1)
            /\ buffer_size' = buffer_size + 1
            /\ UNCHANGED <<file_locks, fileText>>
    /\ UNCHANGED <<max_buffer_size, overwritten, apc>>
    /\ UNCHANGED exceptAfp

\* process_file(file_path, 'write', data): _write_file creates the lock if
\* missing and replaces the contents of the file
WriteFile(f) ==
    /\ apc = "open"
    /\ nData < MaxData
    /\ nData' = nData + 1
    /\ file_locks' = WithLock(file_locks, f)
    /\ fileText' = [fileText EXCEPT ![f] = <<nData + 1>>]
    /\ overwritten' = overwritten \cup {f}
    /\ UNCHANGED <<abuffer, buffer_size, max_buffer_size, appended, apc>>
    /\ UNCHANGED exceptAfp

\* __aexit__
AExit ==
    /\ apc = "open"
    /\ LET r == FlushAll(abuffer, file_locks, fileText, 1)
       IN  /\ abuffer' = r.buffer
           /\ file_locks' = r.locks
           /\ fileText' = r.text
           /\ buffer_size' = IF r.buffer = <<>> /\ abuffer # <<>> THEN 0 ELSE buffer_size
    /\ apc' = "exited"
    /\ UNCHANGED <<max_buffer_size, appended, overwritten, nData>>
    /\ UNCHANGED exceptAfp

NextAfp ==
    \/ \E f \in AFiles : AppendToFile(f)
    \/ \E f \in AFiles : WriteFile(f)
    \/ AExit

-----------------------------------------------------------------------------
(* TokenizerPathManager: safe_save with backup and restore                  *)

SavePaths == 1..MaxSavePaths

\* get_latest_backup: the file of backup_dir with the greatest st_mtime
\* (copy2 gives a backup the st_mtime of the file it copies)
GetLatestBackup(bs) ==
    CHOOSE b \in bs : \A o \in bs : o.mtime <= b.mtime

\* _restore_from_backup(target_path): the latest backup, if there is one, is
\* copied over target_path; content and mtime are those of target_path before
RestoreFromBackup(bs, path, content, mtime) ==
    IF bs # {}
    THEN LET b == GetLatestBackup(bs)
         IN  [content |-> b.content, mtime |-> b.mtime]
    ELSE [content |-> content, mtime |-> mtime]

\* TokenizerPathManager(base_path) on an empty base_path
TokInit ==
    /\ tokFile = [f \in SavePaths |-> 0]
    /\ tokMtime = [f \in SavePaths |-> 0]
    /\ tmpFile = [f \in SavePaths |-> 0]
    /\ backups = {}
    /\ tokClock = 0
    /\ nTokSaves = 0
    /\ savePath = 0
    /\ tokBefore = 0
    /\ tokResult = "none"
    /\ tokpc = "idle"

\* safe_save(tokenizer, save_path): validate_save_path, which backs up an
\* existing save_path; _create_backup re-raises a failed copy, before the
\* try block is entered
SafeSaveBegin(path, backupOk) ==
    /\ tokpc = "idle"
    /\ nTokSaves < MaxTokSaves
    /\ nTokSaves' = nTokSaves + 1
    /\ savePath' = path
    /\ tokBefore' = tokFile[path]
    /\ IF tokFile[path] # 0
       THEN IF backupOk
            THEN /\ backups' = backups \cup
                        {[stem |-> path, content |-> tokFile[path],
                          mtime |-> tokMtime[path]]}
                 /\ tokpc' = "try"
                 /\ tokResult' = "none"
            ELSE /\ tokpc' = "idle"
                 /\ tokResult' = "failed"
                 /\ UNCHANGED backups
       ELSE /\ backupOk
            /\ tokpc' = "try"
            /\ tokResult' = "none"
            /\ UNCHANGED backups
    /\ UNCHANGED <<tokFile, tokMtime, tmpFile, tokClock>>
    /\ UNCHANGED exceptTok

\* tokenizer.save(str(temp_path)): writes the file, or raises having written
\* part of it or nothing
TokenizerSave(saved) ==
    /\ tokpc = "try"
    /\ tokClock' = tokClock + 1
    /\ CASE saved = "ok" ->
             /\ tmpFile' = [tmpFile EXCEPT ![savePath] = nTokSaves]
             /\ tokpc' = "written"
         [] saved = "partial" ->
             /\ tmpFile' = [tmpFile EXCEPT ![savePath] = -1]
             /\ tokpc' = "except"
         [] saved = "nothing" ->
             /\ UNCHANGED tmpFile
             /\ tokpc' = "except"
    /\ UNCHANGED <<tokFile, tokMtime, backups, nTokSaves, savePath, tokBefore,
                   tokResult>>
    /\ UNCHANGED exceptTok

\* temp_path.replace(save_path): renames the file, or raises
TempReplace(ok) ==
    /\ tokpc = "written"
    /\ IF ok
       THEN /\ tokFile' = [tokFile EXCEPT ![savePath] = tmpFile[savePath]]
            /\ tokMtime' = [tokMtime EXCEPT ![savePath] = tokClock]
            /\ tmpFile' = [tmpFile EXCEPT ![savePath] = 0]
            /\ tokResult' = "ok"
            /\ tokpc' = "idle"
       ELSE /\ tokpc' = "except"
            /\ UNCHANGED <<tokFile, tokMtime, tmpFile, tokResult>>
    /\ UNCHANGED <<backups, tokClock, nTokSaves, savePath, tokBefore>>
    /\ UNCHANGED exceptTok

\* except Exception: the .tmp file is unlinked, _restore_from_backup(save_path)
\* runs and the exception is raised again
SafeSaveExcept ==
    /\ tokpc = "except"
    /\ tmpFile' = [tmpFile EXCEPT ![savePath] = 0]
    /\ LET r == RestoreFromBackup(backups, savePath, tokFile[savePath],
                                  tokMtime[savePath])
       IN  /\ tokFile' = [tokFile EXCEPT ![savePath] = r.content]
           /\ tokMtime' = [tokMtime EXCEPT ![savePath] = r.mtime]
    /\ tokResult' = "failed"
    /\ tokpc' = "idle"
    /\ UNCHANGED <<backups, tokClock, nTokSaves, savePath, tokBefore>>
    /\ UNCHANGED exceptTok

NextTok ==
    \/ \E path \in SavePaths, backupOk \in BOOLEAN : SafeSaveBegin(path, backupOk)
    \/ \E saved \in {"ok", "partial", "nothing"} : TokenizerSave(saved)
    \/ \E ok \in BOOLEAN : TempReplace(ok)
    \/ SafeSaveExcept

-----------------------------------------------------------------------------
(* Specifications *)

\* The checkpoint directory untouched: what the other components see of it
CkptIdle ==
    /\ disk = [e \in Epochs |-> 0]
    /\ checkpoints = <<>>
    /\ max_checkpoints = 1
    /\ clock = 0
    /\ nSaves = 0
    /\ lastOp = "init"
    /\ lastEpoch = -1
    /\ loaded = NoLoad
    /\ partial = {}

\* No thread inside save_checkpoint
SaveIdle ==
    /\ tpc = [t \in Threads |-> "idle"]
    /\ tepoch = [t \in Threads |-> -1]
    /\ popped = [t \in Threads |-> -1]
    /\ used = {}

\* No AsyncPrefetchDataLoader constructed
PrefetchIdle ==
    /\ dataloader = 0
    /\ num_prefetch = 1
    /\ queue = <<>>
    /\ stop_event = FALSE
    /\ ppc = "off"
    /\ pidx = 0
    /\ errored = FALSE
    /\ cpc = "off"
    /\ iterNo = 0
    /\ received = <<>>
    /\ enqueued = <<>>
    /\ sawStop = FALSE

\* No retry executor called
RetryIdle ==
    /\ mode = "off"
    /\ max_retries = 1
    /\ base_delay = 0
    /\ failCount = 0
    /\ kind = "transient"
    /\ rpc = "off"
    /\ attempt = 0
    /\ runs = 0
    /\ sleeps = <<>>
    /\ exc = "none"
    /\ outcome = "none"

\* No chunk_iterator running and no WorkerManager constructed
GovIdle ==
    /\ gmode = "off"
    /\ ntexts = 0
    /\ chunk_size = 0
    /\ position = 0
    /\ yielded = <<>>
    /\ gpc = "off"
    /\ max_workers = 1
    /\ current_workers = 1
    /\ memReading = 0
    /\ cpuReading = 0
    /\ prevValue = 0
    /\ adjusted = FALSE
    /\ allHigh = TRUE
    /\ allLow = TRUE
    /\ sinceReduce = -1

\* No DataManager method called
DataIdle ==
    /\ dop = "off"
    /\ dtexts = <<>>
    /\ num_workers = 1
    /\ chunks = <<>>
    /\ mapped = <<>>
    /\ mapResults = <<>>
    /\ dresult = <<>>
    /\ dpc = "off"

\* process_streaming_dataset not called
StreamIdle ==
    /\ sdataset = <<>>
    /\ sidx = 0
    /\ sbatch = <<>>
    /\ futures = <<>>
    /\ poolDone = {}
    /\ outfile = <<>>
    /\ spc = "off"

\* No training running
TrainIdle ==
    /\ tmode = "off"
    /\ tbatches = <<>>
    /\ hasOptimizer = FALSE
    /\ tidx = 0
    /\ trained = <<>>
    /\ cleaned = 0
    /\ zeroed = 0
    /\ texc = "none"
    /\ trpc = "off"

\* No AsyncFileProcessor in use
AfpIdle ==
    /\ abuffer = <<>>
    /\ buffer_size = 0
    /\ max_buffer_size = 1
    /\ file_locks = <<>>
    /\ fileText = [f \in AFiles |-> <<>>]
    /\ appended = [f \in AFiles |-> <<>>]
    /\ overwritten = {}
    /\ nData = 0
    /\ apc = "off"

\* No TokenizerPathManager in use
TokIdle ==
    /\ tokFile = [f \in SavePaths |-> 0]
    /\ tokMtime = [f \in SavePaths |-> 0]
    /\ tmpFile = [f \in SavePaths |-> 0]
    /\ backups = {}
    /\ tokClock = 0
    /\ nTokSaves = 0
    /\ savePath = 0
    /\ tokBefore = 0
    /\ tokResult = "none"
    /\ tokpc = "off"

\* No EmbeddingGenerator constructed
CacheIdle ==
    /\ cache = <<>>
    /\ cache_size = 1
    /\ recency = <<>>
    /\ prevCache = <<>>
    /\ lastKey = 0
    /\ lastGet = "off"

InitCheckpoint ==
    CkptInit /\ SaveIdle /\ PrefetchIdle /\ RetryIdle /\ GovIdle /\ DataIdle /\ CacheIdle
    /\ StreamIdle
    /\ TrainIdle
    /\ AfpIdle
    /\ TokIdle

SpecCheckpoint == InitCheckpoint /\ [][NextCheckpoint]_vars

InitSave == SaveInit /\ PrefetchIdle /\ RetryIdle /\ GovIdle /\ DataIdle
    /\ CacheIdle
    /\ StreamIdle
    /\ TrainIdle
    /\ AfpIdle
    /\ TokIdle

SpecSave == InitSave /\ [][NextSave]_vars

InitPrefetch == PrefetchInit /\ CkptIdle /\ SaveIdle /\ RetryIdle /\ GovIdle /\ DataIdle
    /\ CacheIdle
    /\ StreamIdle
    /\ TrainIdle
    /\ AfpIdle
    /\ TokIdle

SpecPrefetch == InitPrefetch /\ [][NextPrefetch]_vars

\* The prefetch thread is a running thread: a step it can take it takes. A
\* consumer inside __iter__ keeps calling get, and a join returns once the thread
\* has ended. Whether and when a consumer iterates or deletes the loader is up
\* to the caller.
FairSpecPrefetch ==
    SpecPrefetch /\ WF_vars(PrefetchThread) /\ WF_vars(IterGet) /\ WF_vars(JoinReturn)

InitRetry == RetryInit /\ CkptIdle /\ SaveIdle /\ PrefetchIdle /\ GovIdle /\ DataIdle
    /\ CacheIdle
    /\ StreamIdle
    /\ TrainIdle
    /\ AfpIdle
    /\ TokIdle

SpecRetry == InitRetry /\ [][NextRetry]_vars

InitGov == GovInit /\ CkptIdle /\ SaveIdle /\ PrefetchIdle /\ RetryIdle /\ DataIdle
    /\ CacheIdle
    /\ StreamIdle
    /\ TrainIdle
    /\ AfpIdle
    /\ TokIdle

SpecGov == InitGov /\ [][NextGov]_vars

InitData ==
    DataInit /\ CkptIdle /\ SaveIdle /\ PrefetchIdle /\ RetryIdle /\ GovIdle
    /\ CacheIdle
    /\ StreamIdle
    /\ TrainIdle
    /\ AfpIdle
    /\ TokIdle

SpecData == InitData /\ [][NextData]_vars

InitCache ==
    CacheInit /\ CkptIdle /\ SaveIdle /\ PrefetchIdle /\ RetryIdle /\ GovIdle /\ DataIdle
    /\ StreamIdle
    /\ TrainIdle
    /\ AfpIdle
    /\ TokIdle

SpecCache == InitCache /\ [][NextCache]_vars

InitStream ==
    StreamInit
    /\ CkptIdle
    /\ SaveIdle
    /\ PrefetchIdle
    /\ RetryIdle
    /\ GovIdle
    /\ DataIdle
    /\ CacheIdle
    /\ TrainIdle
    /\ AfpIdle
    /\ TokIdle

SpecStream == InitStream /\ [][NextStream]_vars

InitTrain ==
    TrainInit
    /\ CkptIdle
    /\ SaveIdle
    /\ PrefetchIdle
    /\ RetryIdle
    /\ GovIdle
    /\ DataIdle
    /\ CacheIdle
    /\ StreamIdle
    /\ AfpIdle
    /\ TokIdle

SpecTrain == InitTrain /\ [][NextTrain]_vars

InitAfp ==
    AfpInit
    /\ CkptIdle
    /\ SaveIdle
    /\ PrefetchIdle
    /\ RetryIdle
    /\ GovIdle
    /\ DataIdle
    /\ CacheIdle
    /\ StreamIdle
    /\ TrainIdle
    /\ TokIdle

SpecAfp == InitAfp /\ [][NextAfp]_vars

InitTok ==
    TokInit
    /\ CkptIdle
    /\ SaveIdle
    /\ PrefetchIdle
    /\ RetryIdle
    /\ GovIdle
    /\ DataIdle
    /\ CacheIdle
    /\ AfpIdle
    /\ StreamIdle
    /\ TrainIdle

SpecTok == InitTok /\ [][NextTok]_vars

-----------------------------------------------------------------------------
(* Claims: CheckpointManager *)

(* C1: after save_checkpoint(epoch = e) returns, checkpoint_epoch_e.pt      *)
(* exists on disk: pruning never deletes the file written by that save.    *)
SavedFileExists ==
    lastOp = "save" => disk[lastEpoch] # 0

(* C2: after more saves than max_checkpoints, load_latest_checkpoint loads  *)
(* the checkpoint written by the most recent save.                         *)
LoadLatestIsNewestSave ==
    (lastOp = "load" /\ nSaves > max_checkpoints)
        => (loaded.status = "ok" /\ loaded.content = clock)

\* The checkpoint files in the save directory
CheckpointFiles == Glob(disk)

NoPartialCheckpointTracked ==
    lastOp = "init"
        => \A i \in 1..Len(checkpoints) : checkpoints[i] \notin partial

\* Can the tracked checkpoint at path e be loaded?
Loadable(e) == disk[e] # 0 /\ e \notin partial

(* C13: when the newest tracked checkpoint cannot be loaded,                *)
(* load_latest_checkpoint skips it and loads the most recent one that can;  *)
(* when none can, it returns (None, None) and does not raise.               *)
LoadSkipsInvalid ==
    lastOp = "load"
        => IF \E i \in 1..Len(checkpoints) : Loadable(checkpoints[i])
           THEN LET last == CHOOSE i \in 1..Len(checkpoints) :
                               /\ Loadable(checkpoints[i])
                               /\ \A j \in (i + 1)..Len(checkpoints) :
                                      ~Loadable(checkpoints[j])
                IN  loaded = [status |-> "ok", content |-> disk[checkpoints[last]]]
           ELSE loaded.status = "nocheckpoint"

(* C14: concurrent save_checkpoint calls with distinct epochs on one shared *)
(* manager are serialized: once every call has returned, the tracked list   *)
(* and the files are those of some sequential order of the calls, so        *)
(* exactly min(number of saves, max_checkpoints) checkpoints are tracked    *)
(* and their files are the checkpoint files of the directory.               *)
ConcurrentSavesSerialized ==
    (\A t \in Threads : tpc[t] = "idle")
        => /\ Len(checkpoints) = Min(Cardinality(used), max_checkpoints)
           /\ CheckpointFiles = {checkpoints[i] : i \in 1..Len(checkpoints)}

-----------------------------------------------------------------------------
(* Claims: chunk_iterator and WorkerManager *)

\* The value the running component adjusts
Value == IF gmode = "chunks" THEN chunk_size ELSE current_workers

\* The last step was chunk_iterator's step after its yield
AfterResume == gmode = "chunks" /\ gpc = "top" /\ adjusted

\* The last step was chunk_iterator's step at the top of its loop
AfterNext == gmode = "chunks" /\ gpc \in {"yielded", "done"}

AfterAdjustWorkers == gmode = "workers" /\ adjusted

(* C15: the chunk size in effect for every chunk yielded lies within        *)
(* [min_chunk_size, max_chunk_size] and current_workers lies within         *)
(* [min_workers, max_workers], for every initial value and every sequence   *)
(* of readings.                                                             *)
WithinConfiguredBounds ==
    /\ \A i \in 1..Len(yielded) :
           /\ yielded[i].size >= MinChunkSize
           /\ yielded[i].size <= MaxChunkSize
    /\ gmode = "workers"
           => current_workers >= MinWorkers /\ current_workers <= max_workers

LowNonDecreasing ==
    allLow
        => /\ \A i \in 1..Len(yielded) :
                  /\ yielded[i].size <= MaxChunkSize
                  /\ i > 1 => /\ yielded[i].size >= yielded[i - 1].size
                              /\ yielded[i].size <= 2 * yielded[i - 1].size
           /\ AfterAdjustWorkers
                  => /\ current_workers >= prevValue
                     /\ current_workers <= max_workers
                     /\ current_workers <= 2 * prevValue

(* C18: a reading above the critical threshold reduces the chunk size and   *)
(* the worker count by exactly one halving step, max(minimum, old // 2),    *)
(* and no adjustment moves a value by more than one halving or one doubling.*)
OneHalvingStep ==
    /\ AfterNext /\ memReading > ChunkCritical
           => chunk_size = Max(MinChunkSize, prevValue \div 2)
    /\ AfterAdjustWorkers /\ (memReading > WorkerCritical \/ cpuReading > WorkerCritical)
           => current_workers = Max(MinWorkers, prevValue \div 2)
    /\ adjusted => Value >= prevValue \div 2 /\ Value <= 2 * prevValue

(* C18, amended: a memory reading above 95% makes chunk_iterator reduce the *)
(* chunk size by exactly one halving step, max(min_chunk_size, old // 2).   *)
(* adjust_workers halves the worker count, max(min_workers, old // 2), only *)
(* when memory or CPU is above 80% and neither is above 90%; when memory or *)
(* CPU is above 90% it sets the worker count to min_workers whatever it     *)
(* was. A growth step is min(maximum, old * 2); no other step changes a     *)
(* value.                                                                   *)
AdjustmentSteps ==
    /\ AfterNext
           => chunk_size = IF memReading > ChunkCritical
                           THEN Max(MinChunkSize, prevValue \div 2)
                           ELSE prevValue
    /\ AfterResume
           => chunk_size = IF memReading < ChunkLow
                           THEN Min(MaxChunkSize, prevValue * 2)
                           ELSE prevValue
    /\ AfterAdjustWorkers
           => current_workers =
                 IF memReading > WorkerCritical \/ cpuReading > WorkerCritical
                 THEN MinWorkers
                 ELSE IF memReading > WorkerHigh \/ cpuReading > WorkerHigh
                 THEN Max(MinWorkers, prevValue \div 2)
                 ELSE IF memReading < WorkerLow /\ cpuReading < WorkerLow
                 THEN Min(prevValue * 2, max_workers)
                 ELSE prevValue

\* a reading above 90% has taken the worker count to the minimum from more than
\* twice the minimum
AdjustmentStepsWitness ==
    /\ AfterAdjustWorkers
    /\ memReading > WorkerCritical
    /\ prevValue > 2 * MinWorkers
    /\ prevValue <= max_workers
    /\ current_workers = MinWorkers

ChunksCoverInput ==
    gpc = "done"
        => /\ yielded = <<>> => ntexts = 0
           /\ yielded # <<>>
                  => /\ yielded[1].first = 1
                     /\ yielded[Len(yielded)].last = ntexts
           /\ \A i \in 2..Len(yielded) : yielded[i].first = yielded[i - 1].last + 1

(* C21: chunk_iterator never yields an empty chunk, and it ends exactly     *)
(* when the input is exhausted: every record has been consumed when the     *)
(* generator has ended.                                                     *)
EndsWhenExhausted ==
    /\ \A i \in 1..Len(yielded) : yielded[i].last >= yielded[i].first
    /\ gpc = "done" => position = ntexts

-----------------------------------------------------------------------------
(* Claims: DataManager *)

\* The indices of the texts, in input order
TextIndices == [i \in 1..Len(dtexts) |-> i]

\* Does text i give a result: enough tokens and no exception
GivesResult(i) == dtexts[i] = "ok"

(* C22: in _process_chunk an exception while transforming one text drops    *)
(* only that text: the results of the other texts are returned in input     *)
(* order, and when every text fails an empty list is returned and nothing   *)
(* is raised.                                                               *)
FailureDropsOnlyThatText ==
    dop = "process_chunk" /\ dpc # "called"
        => /\ dpc = "done"
           /\ dresult = SelectSeq(TextIndices, GivesResult)

\* a text after a failing one is in the result
FailureDropsOnlyThatTextWitness ==
    /\ dop = "process_chunk"
    /\ dpc = "done"
    /\ \E i \in 1..Len(dtexts), j \in 1..Len(dtexts) :
           /\ i < j
           /\ dtexts[i] = "raises"
           /\ dtexts[j] = "ok"
           /\ \E k \in 1..Len(dresult) : dresult[k] = j

(* C28: load_data_parallel completes for every non-empty texts and every    *)
(* num_workers >= 1, passes every text to _process_chunk exactly once, and  *)
(* returns the per-chunk results concatenated in input order.               *)
LoadDataParallelCompletes ==
    dop = "load_data_parallel" /\ dtexts # <<>>
        => /\ dpc # "raised"
           /\ dpc \in {"mapping", "done"} => Flatten(chunks) = TextIndices
           /\ dpc = "done" => dresult = SelectSeq(TextIndices, GivesResult)

-----------------------------------------------------------------------------
(* Claims: EmbeddingGenerator *)

(* C23: the cache is kept in strict least-recently-used order: every access *)
(* to a key through get_embedding, hit or miss, makes it the most recently  *)
(* used, so the cached keys are ordered by their last access and the key    *)
(* evicted on overflow is the one whose last access is oldest.              *)
StrictLruOrder == cache = SelectSeq(recency, LAMBDA k : k \in Range(cache))

(* C24: with cache_size >= 1 and an empty cache at the start, the cache     *)
(* never holds more than cache_size entries, and an insertion into a full   *)
(* cache evicts exactly one entry.                                          *)
CacheBounded ==
    /\ Len(cache) <= cache_size
    /\ Cardinality(Range(cache)) = Len(cache)
    /\ lastGet = "miss" /\ Len(prevCache) = cache_size
           => Cardinality(Range(prevCache) \ Range(cache)) = 1

\* a key was inserted into a full cache of two entries
CacheBoundedWitness ==
    /\ lastGet = "miss"
    /\ cache_size >= 2
    /\ Len(prevCache) = cache_size
    /\ Len(cache) = cache_size
    /\ lastKey \in Range(cache)

-----------------------------------------------------------------------------
(* Claims: process_streaming_dataset *)

(* C25: process_streaming_dataset writes the non-empty texts of the dataset *)
(* to the output file in dataset order, each exactly once, whatever the     *)
(* order in which the submitted batches complete, the final partial batch   *)
(* after all earlier batches.                                               *)
WrittenInDatasetOrder ==
    spc = "done"
        => outfile = SelectSeq([i \in 1..Len(sdataset) |-> i],
                               LAMBDA i : sdataset[i])

-----------------------------------------------------------------------------
(* Claims: train_with_monitoring and handle_oom *)

\* The number of out-of-memory batches among the first n
OomCount(n) == Cardinality({i \in 1..n : tbatches[i] = "oom"})

(* C27: a RuntimeError with "out of memory" in its message is absorbed:     *)
(* memory is cleaned with clean_memory, gradients are zeroed, the failing   *)
(* batch is skipped and training continues with the next one (handle_oom    *)
(* returns); any other RuntimeError propagates unchanged, and nothing else  *)
(* is raised.                                                               *)
OomAbsorbed ==
    /\ trpc = "raised"
           => /\ texc = "error"
              /\ tbatches[tidx + 1] = "error"
    /\ trpc = "returned"
           => /\ trained = SelectSeq([i \in 1..Len(tbatches) |-> i],
                                   LAMBDA i : tbatches[i] = "ok")
              /\ cleaned = OomCount(Len(tbatches))
    /\ hasOptimizer /\ trpc \in {"loop", "returned"} => zeroed = OomCount(tidx)

-----------------------------------------------------------------------------
(* Claims: AsyncFileProcessor *)

(* C29: on exit from the AsyncFileProcessor context every string passed to  *)
(* an 'append' operation has been written to the file it was appended for,  *)
(* in append order, the buffer is empty, and no file holds a string         *)
(* appended for another file. (Files a 'write' operation has replaced are   *)
(* left aside.)                                                             *)
AppendsFlushedOnExit ==
    /\ apc = "exited"
           => /\ abuffer = <<>>
              /\ \A f \in AFiles \ overwritten : fileText[f] = appended[f]
    /\ \A f \in AFiles \ overwritten :
           \A i \in 1..Len(fileText[f]) :
              \E j \in 1..Len(appended[f]) : appended[f][j] = fileText[f][i]

-----------------------------------------------------------------------------
(* Claims: TokenizerPathManager *)

(* C30: when safe_save has failed, save_path is as it was before the call   *)
(* (same contents, or still absent) and it has no .tmp file; when it has    *)
(* succeeded, save_path holds the complete tokenizer of that call.          *)
SafeSaveAllOrNothing ==
    /\ tokResult = "failed"
           => /\ tokFile[savePath] = tokBefore
              /\ tmpFile[savePath] = 0
    /\ tokResult = "ok" => tokFile[savePath] = nTokSaves

-----------------------------------------------------------------------------
(* Claims: AsyncPrefetchDataLoader *)

(* C3: once the prefetch thread has published the end sentinel and ended,    *)
(* every consumer iteration over the loader terminates.                    *)
IterationTerminates ==
    (ppc = "done" /\ cpc = "iter") ~> (cpc # "iter")

(* C4: after the stop flag is set the prefetch thread ends and the join     *)
(* returns.                                                                *)
StopEndsThread ==
    stop_event ~> (ppc = "done" /\ cpc = "gone")

(* C5: the queue never holds more than num_prefetch items (batches and the  *)
(* sentinel), and a prefetch thread that finds it full is blocked: it can  *)
(* take no step until the consumer has removed an item.                    *)
QueueBounded ==
    /\ Len(queue) <= num_prefetch
    /\ (Len(queue) = num_prefetch /\ ppc \in {"put", "final"})
           => ~ENABLED PrefetchThread

QueueBoundedWitness ==
    /\ num_prefetch >= 2
    /\ Len(queue) = num_prefetch
    /\ ppc = "put"
    /\ cpc = "iter"

SentinelOnceAndLast ==
    /\ \A i \in 1..Len(enqueued) : enqueued[i] = None => i = Len(enqueued)
    /\ ppc = "done" => enqueued # <<>> /\ enqueued[Len(enqueued)] = None
    /\ ppc # "done" => \A i \in 1..Len(enqueued) : enqueued[i] # None
    /\ sawStop => ppc \in {"final", "done"}
    /\ iterNo = 1 /\ cpc = "idle" => received = SelectSeq(enqueued, LAMBDA item : item # None)

\* the dataloader raised after a batch, and the consumer's iteration has ended
SentinelOnceAndLastWitness ==
    /\ errored
    /\ ppc = "done"
    /\ iterNo = 1
    /\ cpc = "idle"
    /\ Len(received) >= 1
    /\ Len(received) < dataloader

-----------------------------------------------------------------------------
(* Claims: RetryHandler *)

(* C7: an operation that fails on its first k attempts, k < max_retries,    *)
(* and would then succeed is run k+1 times by RetryHandler and the call     *)
(* completes successfully; the operation is never run more than max_retries *)
(* times.                                                                  *)
RetryReexecutes ==
    (mode \in HandlerModes /\ kind = "transient")
        => /\ runs <= max_retries
           /\ (rpc = "done" /\ failCount < max_retries)
                  => (outcome = "ok" /\ runs = failCount + 1)

(* C8: when the operation fails on every attempt, RetryHandler raises the   *)
(* operation's own exception once max_retries is exhausted.                *)
RaisesOriginalError ==
    (mode \in HandlerModes /\ kind = "transient" /\ failCount >= max_retries
       /\ rpc = "done")
        => (outcome = "raised" /\ exc = "original")

BackoffBetweenAttempts ==
    mode \in HandlerModes
        => /\ \A i \in 1..Len(sleeps) : sleeps[i] = base_delay * (2 ^ (i - 1))
           /\ rpc = "done" => Len(sleeps) < runs

=============================================================================
